---------------------------- MODULE Spec2Model ----------------------------
(***************************************************************************)
(* A model of the text-analysis batch of src/src/analysis/test_analysis.py *)
(* (class TextAnalyzer and main).                                          *)
(*                                                                         *)
(* Strings are sequences of one-character strings, so that str.lower,      *)
(* str.strip, str.isalpha, str.endswith and the regular expressions of the *)
(* source are computed character by character.  Floating-point results are *)
(* exact rationals in lowest terms, [n |-> numerator, d |-> denominator]   *)
(* with d > 0; an integer result k is the rational k/1, as Python compares *)
(* 0 == 0.0.                                                               *)
(***************************************************************************)
EXTENDS Integers, Sequences, FiniteSets, TLC

VARIABLES
    pc,              \* position of main() (or of the call, for a single method)
    stopwords,       \* TextAnalyzer.stopwords
    positive_words,  \* TextAnalyzer.positive_words
    negative_words,  \* TextAnalyzer.negative_words
    articles,        \* extracted_articles/: identifier -> state of <id>.txt
    input_df,        \* rows of data/input/Input.xlsx
    index,           \* number of rows the loop of main() has consumed
    results,         \* main()'s list of result rows
    success_count,   \* main()'s success counter
    arg,             \* argument of the method under call
    ret              \* value the method returned

vars == <<pc, stopwords, positive_words, negative_words, articles, input_df, index, results, success_count, arg, ret>>

lexicon == <<stopwords, positive_words, negative_words>>

-----------------------------------------------------------------------------
(* Characters and strings *)

UpperCase == <<"A","B","C","D","E","F","G","H","I","J","K","L","M",
               "N","O","P","Q","R","S","T","U","V","W","X","Y","Z">>

LowerCase == <<"a","b","c","d","e","f","g","h","i","j","k","l","m",
               "n","o","p","q","r","s","t","u","v","w","x","y","z">>

Digits == {"0","1","2","3","4","5","6","7","8","9"}

Range(s) == {s[i] : i \in 1..Len(s)}

Max(a, b) == IF a >= b THEN a ELSE b

\* F(value), with value computed once (a local variable of the source)
once(value, F(_)) == CHOOSE r \in {F(v) : v \in {value}} : TRUE

is_upper(c) == \E i \in 1..Len(UpperCase) : UpperCase[i] = c

is_alpha_char(c) == c \in Range(UpperCase) \cup Range(LowerCase)

\* a character the regular expression class \w matches
is_word_char(c) == is_alpha_char(c) \/ c \in Digits \/ c = "_"

is_space(c) == c \in {" ", "\t", "\n"}

lower_char(c) ==
    IF is_upper(c)
    THEN LowerCase[CHOOSE i \in 1..Len(UpperCase) : UpperCase[i] = c]
    ELSE c

\* str.lower()
lower(s) == [i \in 1..Len(s) |-> lower_char(s[i])]

\* str.isalpha(): non-empty and every character alphabetic
isalpha(s) == Len(s) > 0 /\ \A i \in 1..Len(s) : is_alpha_char(s[i])

\* str.endswith(suffix)
endswith(s, suffix) ==
    /\ Len(s) >= Len(suffix)
    /\ SubSeq(s, Len(s) - Len(suffix) + 1, Len(s)) = suffix

\* str.strip(): leading and trailing whitespace removed
strip(s) ==
    LET inked == {i \in 1..Len(s) : ~is_space(s[i])}
    IN  IF inked = {} THEN <<>>
        ELSE SubSeq(s, CHOOSE i \in inked : \A j \in inked : i <= j,
                       CHOOSE i \in inked : \A j \in inked : i >= j)

-----------------------------------------------------------------------------
(* TextAnalyzer.count_syllables *)

vowels == {"a", "e", "i", "o", "u", "y"}

\* the for loop of count_syllables from character i on: the increments it makes
RECURSIVE vowel_groups(_, _, _)
vowel_groups(word, i, previous_was_vowel) ==
    IF i > Len(word) THEN 0
    ELSE LET is_vowel == word[i] \in vowels
         IN  (IF is_vowel /\ ~previous_was_vowel THEN 1 ELSE 0)
             + vowel_groups(word, i + 1, is_vowel)

count_syllables_unclamped(word) ==
    LET w == lower(word)
        syllable_count == vowel_groups(w, 1, FALSE)
    IN  IF endswith(w, <<"e","s">>) \/ endswith(w, <<"e","d">>)
        THEN syllable_count - 1
        ELSE syllable_count

count_syllables(word) ==
    LET w == lower(word)
        syllable_count == vowel_groups(w, 1, FALSE)
        adjusted == IF endswith(w, <<"e","s">>) \/ endswith(w, <<"e","d">>)
                    THEN syllable_count - 1
                    ELSE syllable_count
    IN  Max(adjusted, 1)

-----------------------------------------------------------------------------
(* TextAnalyzer.count_personal_pronouns *)

\* \b at offset p (between text[p] and text[p+1])
word_boundary(text, p) ==
    LET before == p >= 1 /\ p <= Len(text) /\ is_word_char(text[p])
        after  == p + 1 >= 1 /\ p + 1 <= Len(text) /\ is_word_char(text[p + 1])
    IN  before # after

\* the literal lit matches text at offset p (its first character is text[p+1])
literal_at(text, p, lit, ignorecase) ==
    /\ p + Len(lit) <= Len(text)
    /\ \A k \in 1..Len(lit) :
          IF ignorecase
          THEN lower_char(text[p + k]) = lower_char(lit[k])
          ELSE text[p + k] = lit[k]

\* \b(alt1|alt2|...)\b tried at offset p: the length of the match that the
\* first alternative (in order) to succeed gives, 0 for no match
RECURSIVE match_at(_, _, _, _, _)
match_at(text, p, alts, k, ignorecase) ==
    IF k > Len(alts) \/ ~word_boundary(text, p) THEN 0
    ELSE IF /\ literal_at(text, p, alts[k], ignorecase)
            /\ word_boundary(text, p + Len(alts[k]))
         THEN Len(alts[k])
         ELSE match_at(text, p, alts, k + 1, ignorecase)

\* len(re.findall(r'\b(alt1|...)\b', text, flags)): the scan takes the leftmost
\* match at or after its offset and goes on from the end of that match;
\* count_from[p] counts the matches the scan finds from offset p on
findall_count(text, alts, ignorecase) ==
    LET matches_at(q) == match_at(text, q, alts, 1, ignorecase) > 0
        count_from[p \in 0..Len(text)] ==
            IF \E q \in p..(Len(text) - 1) : matches_at(q)
            THEN LET leftmost == CHOOSE q \in p..(Len(text) - 1) :
                                    /\ matches_at(q)
                                    /\ \A r \in p..(q - 1) : ~matches_at(r)
                 IN  1 + count_from[leftmost
                                    + match_at(text, leftmost, alts, 1, ignorecase)]
            ELSE 0
    IN  count_from[0]

pronoun_pattern == << <<"I">>, <<"w","e">>, <<"m","y">>,
                      <<"o","u","r","s">>, <<"u","s">> >>

us_country_pattern == << <<"U","S">> >>

count_personal_pronouns_cased(text) ==
    LET pronouns == findall_count(text, pronoun_pattern, FALSE)
        us_country_count == findall_count(text, us_country_pattern, FALSE)
    IN  Max(0, pronouns - us_country_count)

count_personal_pronouns(text) ==
    LET pronouns == findall_count(text, pronoun_pattern, TRUE)
        us_country_count == findall_count(text, us_country_pattern, FALSE)
        total_count == pronouns - us_country_count
    IN  Max(0, total_count)

-----------------------------------------------------------------------------
(* Numbers: Python's float results as exact rationals in lowest terms *)

Abs(k) == IF k < 0 THEN -k ELSE k

RECURSIVE gcd(_, _)
gcd(a, b) == IF b = 0 THEN a ELSE once(a % b, LAMBDA r : gcd(b, r))

\* n/d for d > 0, in lowest terms
Q(n, d) == LET g == gcd(Abs(n), d) IN [n |-> n \div g, d |-> d \div g]

num(k) == [n |-> k, d |-> 1]

add(a, b) == Q(a.n * b.d + b.n * a.d, a.d * b.d)

mul(a, b) == Q(a.n * b.n, a.d * b.d)

\* a / b for b # 0
quotient(a, b) ==
    IF b.n > 0 THEN Q(a.n * b.d, a.d * b.n) ELSE Q(-(a.n * b.d), -(a.d * b.n))

less_eq(a, b) == a.n * b.d <= b.n * a.d

\* Python's a / b: raises ZeroDivisionError when b = 0
true_div(a, b) ==
    [raised |-> b.n = 0,
     value  |-> IF b.n = 0 THEN num(0) ELSE quotient(a, b)]

-----------------------------------------------------------------------------
(* nltk.tokenize, for text made of words, blanks and sentence punctuation *)

sentence_end == {".", "!", "?"}

punctuation == sentence_end \cup {","}

\* the elements of the set of numbers S in increasing order
ascending(S) ==
    [n \in 1..Cardinality(S) |->
        CHOOSE x \in S : Cardinality({y \in S : y < x}) = n - 1]

\* a character of a token that is not a punctuation mark
is_token_char(c) == ~is_space(c) /\ c \notin punctuation

\* word_tokenize: blanks separate tokens, a punctuation mark is a token of
\* its own
word_tokenize(text) ==
    LET begins(i) ==
            \/ text[i] \in punctuation
            \/ /\ is_token_char(text[i])
               /\ (i = 1 \/ ~is_token_char(text[i - 1]))
        last(i) ==
            IF text[i] \in punctuation THEN i
            ELSE CHOOSE j \in i..Len(text) :
                    /\ \A k \in i..j : is_token_char(text[k])
                    /\ (j = Len(text) \/ ~is_token_char(text[j + 1]))
    IN  LET starts == ascending({i \in 1..Len(text) : begins(i)})
        IN  [n \in 1..Len(starts) |-> SubSeq(text, starts[n], last(starts[n]))]

\* sent_tokenize: a sentence ends with its sentence punctuation; sentences are
\* stripped and blank ones are dropped
sent_tokenize(text) ==
    LET ends == {i \in 1..Len(text) : text[i] \in sentence_end} \cup {Len(text) + 1}
        start(e) == IF \E f \in ends : f < e
                    THEN 1 + CHOOSE f \in ends : f < e /\ \A g \in ends : g < e => g <= f
                    ELSE 1
        body(e) == strip(SubSeq(text, start(e), e - 1))
        sentence(e) == IF e <= Len(text) THEN Append(body(e), text[e]) ELSE body(e)
        written(e) == body(e) # <<>>
    IN  LET kept == ascending({e \in ends : written(e)})
        IN  [n \in 1..Len(kept) |-> sentence(kept[n])]

-----------------------------------------------------------------------------
(* TextAnalyzer.analyze_text *)

epsilon == Q(1, 1000000)

RECURSIVE total_of(_, _, _)
\* sum(f(word) for word in words), from element i on
total_of(f(_), words, i) ==
    IF i > Len(words) THEN 0 ELSE f(words[i]) + total_of(f, words, i + 1)

unfloored(count) == count

\* max(len(...), 1), lines 161-163
at_least_one(count) == Max(count, 1)

\* the counts analyze_text takes from the text (lines 152-168, 181-196)
text_counts(text, sw, pw, nw) ==
    LET not_stopword(w) == w \notin sw
        is_positive(w) == w \in pw
        is_negative(w) == w \in nw
        is_complex(w) == count_syllables(w) > 2
        lowered(words) == [i \in 1..Len(words) |-> lower(words[i])]
        counts(sentences, words, cleaned_words) ==
            [sentences          |-> sentences,
             words              |-> words,
             cleaned_words      |-> cleaned_words,
             num_sentences      |-> at_least_one(Len(sentences)),
             num_words          |-> at_least_one(Len(words)),
             num_cleaned_words  |-> at_least_one(Len(cleaned_words)),
             positive_score     |-> Len(SelectSeq(cleaned_words, is_positive)),
             negative_score     |-> Len(SelectSeq(cleaned_words, is_negative)),
             complex_word_count |-> Len(SelectSeq(words, is_complex)),
             total_syllables    |-> total_of(count_syllables, words, 1),
             personal_pronouns  |-> count_personal_pronouns(text),
             total_characters   |-> total_of(Len, words, 1)]
    IN  once(sent_tokenize(text), LAMBDA sentences :
        once(SelectSeq(word_tokenize(text), isalpha), LAMBDA words :
        once(SelectSeq(lowered(words), not_stopword), LAMBDA cleaned_words :
             counts(sentences, words, cleaned_words))))

polarity_division_unsigned(c) ==
    true_div(num(c.positive_score + c.negative_score),
             add(num(c.positive_score + c.negative_score), epsilon))

\* polarity_score, lines 170-172
polarity_division(c) ==
    true_div(num(c.positive_score - c.negative_score),
             add(num(c.positive_score + c.negative_score), epsilon))

divisions_complex_by_cleaned(c) ==
    [polarity_score |-> polarity_division(c),
     subjectivity_score |->
        true_div(num(c.positive_score + c.negative_score),
                 add(num(c.num_cleaned_words), epsilon)),
     avg_sentence_length |->
        true_div(num(c.num_words), num(c.num_sentences)),
     percentage_complex_words |->
        true_div(num(c.complex_word_count), num(c.num_cleaned_words)),
     syllable_per_word |->
        true_div(num(c.total_syllables), num(c.num_words)),
     avg_word_length |->
        true_div(num(c.total_characters), num(c.num_words))]

\* the six divisions of analyze_text, each [raised, value]
divisions(c) ==
    [polarity_score |-> polarity_division(c),
     subjectivity_score |->
        true_div(num(c.positive_score + c.negative_score),
                 add(num(c.num_cleaned_words), epsilon)),
     avg_sentence_length |->
        true_div(num(c.num_words), num(c.num_sentences)),
     percentage_complex_words |->
        true_div(num(c.complex_word_count), num(c.num_words)),
     syllable_per_word |->
        true_div(num(c.total_syllables), num(c.num_words)),
     avg_word_length |->
        true_div(num(c.total_characters), num(c.num_words))]

\* the denominators of those divisions
denominators(c) ==
    [polarity_score           |-> add(num(c.positive_score + c.negative_score), epsilon),
     subjectivity_score       |-> add(num(c.num_cleaned_words), epsilon),
     avg_sentence_length      |-> num(c.num_sentences),
     percentage_complex_words |-> num(c.num_words),
     syllable_per_word        |-> num(c.num_words),
     avg_word_length          |-> num(c.num_words)]

word_count_unfiltered(c) == c.num_words

\* word_count = num_cleaned_words, line 189
word_count(c) == c.num_cleaned_words

\* the dictionary analyze_text returns for the counts c
metrics_of(c) ==
    once(divisions(c), LAMBDA v :
        [POSITIVE_SCORE                   |-> num(c.positive_score),
         NEGATIVE_SCORE                   |-> num(c.negative_score),
         POLARITY_SCORE                   |-> v.polarity_score.value,
         SUBJECTIVITY_SCORE               |-> v.subjectivity_score.value,
         AVG_SENTENCE_LENGTH              |-> v.avg_sentence_length.value,
         PERCENTAGE_OF_COMPLEX_WORDS      |-> v.percentage_complex_words.value,
         FOG_INDEX                        |->
             mul(Q(2, 5), add(v.avg_sentence_length.value,
                              v.percentage_complex_words.value)),
         AVG_NUMBER_OF_WORDS_PER_SENTENCE |-> v.avg_sentence_length.value,
         COMPLEX_WORD_COUNT               |-> num(c.complex_word_count),
         WORD_COUNT                       |-> num(word_count(c)),
         SYLLABLE_PER_WORD                |-> v.syllable_per_word.value,
         PERSONAL_PRONOUNS                |-> num(c.personal_pronouns),
         AVG_WORD_LENGTH                  |-> v.avg_word_length.value])

\* analyze_text(text) of an analyzer holding the lexicon (sw, pw, nw):
\* [raised |-> a division raised ZeroDivisionError, value |-> the dictionary]
analyze_text(text, sw, pw, nw) ==
    once(text_counts(text, sw, pw, nw), LAMBDA c :
    once(divisions(c), LAMBDA v :
        [raised |-> \E f \in DOMAIN v : v[f].raised,
         value  |-> metrics_of(c)]))

MetricFields == {"POSITIVE_SCORE", "NEGATIVE_SCORE", "POLARITY_SCORE",
                 "SUBJECTIVITY_SCORE", "AVG_SENTENCE_LENGTH",
                 "PERCENTAGE_OF_COMPLEX_WORDS", "FOG_INDEX",
                 "AVG_NUMBER_OF_WORDS_PER_SENTENCE", "COMPLEX_WORD_COUNT",
                 "WORD_COUNT", "SYLLABLE_PER_WORD", "PERSONAL_PRONOUNS",
                 "AVG_WORD_LENGTH"}

\* TextAnalyzer._get_zero_metrics
get_zero_metrics == [f \in MetricFields |-> num(0)]

analyze_file_partial(file, sw, pw, nw) ==
    once(analyze_text(file.text, sw, pw, nw), LAMBDA r :
        IF file.kind \in {"missing", "unreadable"}
        THEN [raised |-> FALSE, value |-> get_zero_metrics]
        ELSE IF file.kind = "raises" \/ r.raised
        THEN [raised |-> FALSE,
              value  |-> [f \in MetricFields |->
                            IF f \in {"POSITIVE_SCORE", "NEGATIVE_SCORE"}
                            THEN r.value[f] ELSE num(0)]]
        ELSE [raised |-> FALSE, value |-> r.value])

analyze_file_raising(file, sw, pw, nw) ==
    once(analyze_text(file.text, sw, pw, nw), LAMBDA r :
        IF file.kind \in {"missing", "unreadable"}
        THEN [raised |-> TRUE, value |-> get_zero_metrics]
        ELSE IF file.kind = "raises" \/ r.raised
        THEN [raised |-> TRUE, value |-> get_zero_metrics]
        ELSE [raised |-> FALSE, value |-> r.value])

\* TextAnalyzer.analyze_file(filepath), file being the state of the file:
\* [raised |-> an exception left analyze_file, value |-> the dictionary]
analyze_file(file, sw, pw, nw) ==
    once(analyze_text(file.text, sw, pw, nw), LAMBDA r :
        IF file.kind \in {"missing", "unreadable"}   \* open() or read() raises
        THEN [raised |-> FALSE, value |-> get_zero_metrics]
        ELSE IF file.kind = "raises" \/ r.raised      \* analyze_text raises
        THEN [raised |-> FALSE, value |-> get_zero_metrics]
        ELSE [raised |-> FALSE, value |-> r.value])

-----------------------------------------------------------------------------
(* TextAnalyzer.load_stopwords, TextAnalyzer.load_sentiment_words *)

\* [word.strip().lower() for word in words if word.strip()]
normalized(lines) ==
    {lower(strip(lines[i])) : i \in {j \in 1..Len(lines) : strip(lines[j]) # <<>>}}

RECURSIVE stopwords_from_until_error(_, _, _)
stopwords_from_until_error(files, i, acc) ==
    IF i > Len(files) THEN acc
    ELSE IF files[i].txt /\ ~files[i].readable THEN acc
    ELSE IF files[i].txt
         THEN stopwords_from_until_error(files, i + 1,
                                         acc \cup normalized(files[i].lines))
         ELSE stopwords_from_until_error(files, i + 1, acc)

\* the loop over os.listdir(folder_path) from file i on, acc the set so far
RECURSIVE stopwords_from(_, _, _)
stopwords_from(files, i, acc) ==
    IF i > Len(files) THEN acc
    ELSE IF files[i].txt /\ files[i].readable
         THEN stopwords_from(files, i + 1, acc \cup normalized(files[i].lines))
         ELSE stopwords_from(files, i + 1, acc)

load_stopwords(folder) ==
    IF ~folder.exists THEN {} ELSE stopwords_from(folder.files, 1, {})

\* one of the two word lists of load_sentiment_words
sentiment_list_unfiltered(file, sw) ==
    IF file.exists /\ file.readable THEN normalized(file.lines) ELSE {}

sentiment_list(file, sw) ==
    IF file.exists /\ file.readable
    THEN {w \in normalized(file.lines) : w \notin sw}
    ELSE {}

\* <<positive_words, negative_words>>, sw being self.stopwords
load_sentiment_words(folder, sw) ==
    IF ~folder.exists THEN <<{}, {}>>
    ELSE <<sentiment_list(folder.positive, sw), sentiment_list(folder.negative, sw)>>

-----------------------------------------------------------------------------
(* The environment: resource folders, article files, input table *)

MaxStopFiles == 2      \* files in resources/StopWords
MaxArticles == 2       \* rows of Input.xlsx
MaxTextItems == 2      \* items of an analysed text
MaxWordLen == 3        \* characters of a word given to count_syllables
MaxTextLen == 4        \* characters of a text given to count_personal_pronouns

\* all sequences over S of length at most n
RECURSIVE SeqsUpTo(_, _)
SeqsUpTo(S, n) ==
    IF n = 0 THEN {<<>>}
    ELSE once(SeqsUpTo(S, n - 1), LAMBDA shorter :
              shorter \cup {Append(s, x) : s \in shorter, x \in S})

w_the == <<"t","h","e">>
w_good == <<"g","o","o","d">>
w_bad == <<"b","a","d">>
w_envious == <<"e","n","v","i","o","u","s">>

StopFiles ==
    {[txt |-> TRUE,  readable |-> TRUE,  lines |-> <<w_the>>],
     [txt |-> TRUE,  readable |-> TRUE,  lines |-> <<<<" ","T","h","e"," ">>, <<"G","O","O","D">>, <<" ">>,
                   <<"b","e","a","u","t","i","f","u","l">>>>],
     [txt |-> TRUE,  readable |-> FALSE, lines |-> <<w_bad>>],
     [txt |-> FALSE, readable |-> TRUE,  lines |-> <<w_bad>>]}

StopDirs ==
    {[exists |-> FALSE, files |-> <<>>]}
    \cup {[exists |-> TRUE, files |-> fs] : fs \in SeqsUpTo(StopFiles, MaxStopFiles)}

PositiveFiles ==
    {[exists |-> FALSE, readable |-> FALSE, lines |-> <<>>],
     [exists |-> TRUE,  readable |-> FALSE, lines |-> <<w_good>>],
     [exists |-> TRUE,  readable |-> TRUE,  lines |-> <<w_good>>],
     [exists |-> TRUE,  readable |-> TRUE,
      lines |-> <<<<" ","G","o","o","d">>, <<>>, <<"E","n","v","i","o","u","s"," ">>, <<"t","h","e">>>>]}

NegativeFiles ==
    {[exists |-> FALSE, readable |-> FALSE, lines |-> <<>>],
     [exists |-> TRUE,  readable |-> FALSE, lines |-> <<w_bad>>],
     [exists |-> TRUE,  readable |-> TRUE,  lines |-> <<w_bad>>],
     [exists |-> TRUE,  readable |-> TRUE,
      lines |-> <<<<"B","A","D">>, <<"e","n","v","i","o","u","s">>, <<"T","h","e">>>>]}

NoFile == [exists |-> FALSE, readable |-> FALSE, lines |-> <<>>]

DictDirs ==
    {[exists |-> FALSE, positive |-> NoFile, negative |-> NoFile]}
    \cup {[exists |-> TRUE, positive |-> p, negative |-> n] :
             p \in PositiveFiles, n \in NegativeFiles}

\* the texts of the specification's examples
GoodBadText == <<"T","h","i","s"," ","i","s"," ","g","o","o","d","."," ","T","h","i","s"," ","i","s"," ","b","a","d",".">>

PronounText == <<"I"," ","l","o","v","e"," ","u","s","."," ","T","h","e"," ","U","S"," ","i","s"," ","g","r","e","a","t",".">>

ArticleIds == {"a1", "a2"}

InputRows ==
    {[URL_ID |-> "a1", URL |-> "u1"],
     [URL_ID |-> "a2", URL |-> "u2"]}

InputTables == SeqsUpTo(InputRows, MaxArticles)

ShortText == <<"G","o","o","d",","," ","b","a","d"," ","u","s",".">>

\* the state of extracted_articles/<id>.txt: absent; present but open() or the
\* utf-8 decoding fails; present with a text on which analyze_text raises
\* (the tokenizer's data lookup); present with a text
FileStates ==
    {[kind |-> "missing", text |-> <<>>],
     [kind |-> "unreadable", text |-> <<>>],
     [kind |-> "raises", text |-> ShortText],
     [kind |-> "text", text |-> <<>>],
     [kind |-> "text", text |-> ShortText]}

-----------------------------------------------------------------------------
(* main() *)

NoCall == <<>>

Init ==
    /\ pc = "init_stopwords"
    /\ stopwords = {}
    /\ positive_words = {}
    /\ negative_words = {}
    /\ articles \in [ArticleIds -> FileStates]
    /\ input_df = <<>>
    /\ index = 0
    /\ results = <<>>
    /\ success_count = 0
    /\ arg = NoCall
    /\ ret = NoCall

\* TextAnalyzer.__init__, line 30: self.stopwords = self.load_stopwords(...)
InitStopwords ==
    /\ pc = "init_stopwords"
    /\ \E folder \in StopDirs : stopwords' = load_stopwords(folder)
    /\ pc' = "init_sentiment"
    /\ UNCHANGED <<positive_words, negative_words, articles,
                   input_df, index, results, success_count, arg, ret>>

\* TextAnalyzer.__init__, line 31
InitSentiment ==
    /\ pc = "init_sentiment"
    /\ \E folder \in DictDirs :
          LET loaded == load_sentiment_words(folder, stopwords)
          IN  /\ positive_words' = loaded[1]
              /\ negative_words' = loaded[2]
    /\ pc' = "load_input"
    /\ UNCHANGED <<stopwords, articles, input_df, index,
                   results, success_count, arg, ret>>

\* main(), lines 270-275: Input.xlsx is absent, main returns
InputMissing ==
    /\ pc = "load_input"
    /\ pc' = "no_input"
    /\ UNCHANGED <<stopwords, positive_words, negative_words, articles, input_df, index, results, success_count, arg, ret>>

\* main(), lines 277-285: the table is read and the loop variables are set
LoadInput ==
    /\ pc = "load_input"
    /\ \E table \in InputTables : input_df' = table
    /\ results' = <<>>
    /\ success_count' = 0
    /\ index' = 0
    /\ pc' = "loop"
    /\ UNCHANGED <<stopwords, positive_words, negative_words, articles, arg, ret>>

row_outcome_by_position(row, file, sw, pw, nw) ==
    once(analyze_file(file, sw, pw, nw), LAMBDA r :
        IF file.kind = "missing" \/ r.raised \/ index > 0
        THEN [metrics |-> get_zero_metrics, counted |-> FALSE]
        ELSE [metrics |-> r.value, counted |-> TRUE])

\* main(), lines 296-306: the metrics of one row, and whether it counts as a
\* success
row_outcome(row, file, sw, pw, nw) ==
    IF file.kind = "missing"               \* not os.path.exists(article_file)
    THEN [metrics |-> get_zero_metrics, counted |-> FALSE]
    ELSE once(analyze_file(file, sw, pw, nw), LAMBDA r :
            IF r.raised                    \* except Exception
            THEN [metrics |-> get_zero_metrics, counted |-> FALSE]
            ELSE [metrics |-> r.value, counted |-> TRUE])

\* main(), lines 309-313: {'URL_ID': url_id, 'URL': url, **metrics}
result_row(row, metrics) ==
    [URL_ID |-> row.URL_ID, URL |-> row.URL] @@ metrics

\* results.append(result), line 314
appended_first(rows, result) == <<result>> \o rows

appended(rows, result) == Append(rows, result)

AnalyzeArticle_AbortOnError ==
    /\ pc = "loop"
    /\ index < Len(input_df)
    /\ \E row \in {input_df[index + 1]} :
       \E outcome \in {row_outcome(row, articles[row.URL_ID],
                                   stopwords, positive_words, negative_words)} :
           /\ results' = appended(results, result_row(row, outcome.metrics))
           /\ success_count' = success_count + (IF outcome.counted THEN 1 ELSE 0)
           /\ pc' = IF outcome.metrics = get_zero_metrics
                    THEN "aborted" ELSE "loop"
    /\ index' = index + 1
    /\ UNCHANGED <<stopwords, positive_words, negative_words, articles, input_df, arg, ret>>

\* main(), lines 287-314: one iteration of the loop over input_df
AnalyzeArticle ==
    /\ pc = "loop"
    /\ index < Len(input_df)
    /\ \E row \in {input_df[index + 1]} :
       \E outcome \in {row_outcome(row, articles[row.URL_ID],
                                   stopwords, positive_words, negative_words)} :
           /\ results' = appended(results, result_row(row, outcome.metrics))
           /\ success_count' = success_count + (IF outcome.counted THEN 1 ELSE 0)
    /\ index' = index + 1
    /\ UNCHANGED <<pc, stopwords, positive_words, negative_words, articles, input_df, arg, ret>>

\* main(), lines 316-321: the loop is over, the output table is built
EndLoop ==
    /\ pc = "loop"
    /\ index = Len(input_df)
    /\ pc' = "write"
    /\ UNCHANGED <<stopwords, positive_words, negative_words, articles, input_df, index, results, success_count, arg, ret>>

\* main(), lines 323-336: to_excel succeeds, or raises and the error is printed
SaveOutput ==
    /\ pc = "write"
    /\ pc' \in {"saved", "save_failed"}
    /\ UNCHANGED <<stopwords, positive_words, negative_words, articles, input_df, index, results, success_count, arg, ret>>

Next ==
    \/ InitStopwords
    \/ InitSentiment
    \/ InputMissing
    \/ LoadInput
    \/ AnalyzeArticle
    \/ EndLoop
    \/ SaveOutput

Spec == Init /\ [][Next]_vars

\* the step of the for statement of line 287 to its next row: of the steps of
\* Next, exactly those of AnalyzeArticle, which is enabled whenever a row is left
NextRow ==
    /\ pc = "loop"
    /\ index < Len(input_df)
    /\ index' = index + 1

\* main() runs on: with a row left the loop takes its next iteration, and with
\* none left it goes on to the statements after the loop
FairSpec == Spec /\ WF_index(NextRow) /\ WF_vars(EndLoop)

-----------------------------------------------------------------------------
(* Single calls of the methods *)

SyllableAlphabet == {"a", "e", "s", "d", "k", "E", "D"}

SyllableWords ==
    SeqsUpTo(SyllableAlphabet, MaxWordLen)
    \cup {<<"c","a","k","e","s">>, <<"r","u","n","n","i","n","g">>}

PronounAlphabet == {"I", "i", "u", "s", "U", "S", " "}

PronounTexts ==
    SeqsUpTo(PronounAlphabet, MaxTextLen)
    \cup {PronounText, <<"W","e"," ","l","o","s","t"," ","m","y"," ","k","e","y","s",","," ","n","o","t"," ","o","u","r","s">>, <<"u","s","-","U","S"," ","b","u","s">>}

CallInit(args) ==
    /\ pc = "call"
    /\ arg \in args
    /\ ret = NoCall
    /\ stopwords = {}
    /\ positive_words = {}
    /\ negative_words = {}
    /\ articles = [id \in ArticleIds |-> [kind |-> "missing", text |-> <<>>]]
    /\ input_df = <<>>
    /\ index = 0
    /\ results = <<>>
    /\ success_count = 0

CallFrame == <<stopwords, positive_words, negative_words, articles, input_df, index, results, success_count, arg>>

CallCountSyllables ==
    /\ pc = "call"
    /\ ret' = count_syllables(arg)
    /\ pc' = "returned"
    /\ UNCHANGED CallFrame

SpecSyllables == CallInit(SyllableWords) /\ [][CallCountSyllables]_vars

CallCountPronouns ==
    /\ pc = "call"
    /\ ret' = count_personal_pronouns(arg)
    /\ pc' = "returned"
    /\ UNCHANGED CallFrame

SpecPronouns == CallInit(PronounTexts) /\ [][CallCountPronouns]_vars

\* the items of the analysed texts: words (a stopword, sentiment words, a
\* word of three syllables, an upper-case word), a token that is not
\* alphabetic, and a full stop
TextItems ==
    {w_the, <<"G","o","o","d">>, w_bad, w_envious, <<"U","S">>, <<"b","e","a","u","t","i","f","u","l">>, <<"x","7">>, <<".">>}

\* the items separated by single blanks
RECURSIVE joined(_, _)
joined(items, i) ==
    IF i > Len(items) THEN <<>>
    ELSE IF i = Len(items) THEN items[i]
    ELSE items[i] \o <<" ">> \o joined(items, i + 1)

AnalysedTexts ==
    {joined(items, 1) : items \in SeqsUpTo(TextItems, MaxTextItems)}
    \cup {GoodBadText, PronounText, <<" "," ">>}

InitAnalyze ==
    /\ pc = "init_stopwords"
    /\ arg = NoCall
    /\ ret = NoCall
    /\ stopwords = {}
    /\ positive_words = {}
    /\ negative_words = {}
    /\ articles = [id \in ArticleIds |-> [kind |-> "missing", text |-> <<>>]]
    /\ input_df = <<>>
    /\ index = 0
    /\ results = <<>>
    /\ success_count = 0

\* analyzer.analyze_text(text) on a constructed analyzer
CallAnalyzeText ==
    /\ pc = "load_input"
    /\ \E text \in AnalysedTexts :
          /\ arg' = text
          /\ ret' = analyze_text(text, stopwords, positive_words, negative_words)
    /\ pc' = "returned"
    /\ UNCHANGED <<stopwords, positive_words, negative_words, articles, input_df, index, results, success_count>>

NextAnalyze == InitStopwords \/ InitSentiment \/ CallAnalyzeText

SpecAnalyze == InitAnalyze /\ [][NextAnalyze]_vars

-----------------------------------------------------------------------------
(* Properties of the batch driver *)

\* the 13 metric fields of a result row
MetricsOf(result) == [f \in MetricFields |-> result[f]]

\* the state of the article file the i-th input row names
FileOf(i) == articles[input_df[i].URL_ID]

InBatch == pc \in {"loop", "write", "saved", "save_failed"}

Failing(file) == file.kind \in {"unreadable", "raises"}

\* C1: the results table holds one record per input pair consumed, the i-th
\* record carries the identifier and the URL of the i-th pair, and once the
\* loop is over the table holds exactly as many records as the input has
\* pairs, whatever articles are missing or fail.
C1_OneRecordPerPairInOrder ==
    InBatch =>
        /\ Len(results) = index
        /\ index <= Len(input_df)
        /\ \A i \in 1..Len(results) :
              /\ results[i].URL_ID = input_df[i].URL_ID
              /\ results[i].URL = input_df[i].URL
        /\ (pc # "loop" => Len(results) = Len(input_df))

C1_Witness ==
    /\ pc = "write"
    /\ Len(results) >= 2
    /\ results[1].URL_ID # results[2].URL_ID
    /\ results[1].URL # results[2].URL
    /\ FileOf(1).kind = "missing"
    /\ FileOf(2).kind = "raises"

\* C2: every emitted record has the 13 metric fields, and they are either the
\* engine's result for the article's text or all exactly 0; they are all 0
\* whenever the file is absent, cannot be read or cannot be analysed.
C2_FullRecordOrZeroRecord ==
    \A i \in 1..Len(results) :
        LET r == analyze_text(FileOf(i).text, stopwords, positive_words,
                              negative_words)
        IN  /\ DOMAIN results[i] = MetricFields \cup {"URL_ID", "URL"}
            /\ IF FileOf(i).kind = "text" /\ ~r.raised
               THEN MetricsOf(results[i]) = r.value
               ELSE \A f \in MetricFields : results[i][f] = num(0)

C2_Witness ==
    /\ Len(results) >= 2
    /\ FileOf(1).kind = "unreadable"
    /\ \A f \in MetricFields : results[1][f].n = 0
    /\ FileOf(2).kind = "text"
    /\ results[2].POSITIVE_SCORE.n > 0
    /\ results[2].WORD_COUNT.n > 1

\* C3: every iteration of the loop, whatever happens to its article, leads to
\* the next one, and the loop ends in the output-writing step after as many
\* iterations as the input has pairs.
C3_NoArticleAbortsTheBatch ==
    /\ [][pc = "loop" /\ index < Len(input_df)
            => pc' = "loop" /\ index' = index + 1]_vars
    /\ [](pc = "loop" =>
            <>(pc = "write" /\ index = Len(input_df)
                            /\ Len(results) = Len(input_df)))

C3_Witness ==
    /\ pc = "write"
    /\ Len(results) >= 2
    /\ Failing(FileOf(1))
    /\ FileOf(2).kind = "text"
    /\ results[2].WORD_COUNT.n > 1

-----------------------------------------------------------------------------
(* Properties of the metric engine *)

Returned == pc = "returned"

\* the counts of the text analysed, with the analyzer's lexicon
CountsOfArg == text_counts(arg, stopwords, positive_words, negative_words)

\* C4: for every text and lexicon, the sentence and word counts analyze_text
\* divides by are at least 1, every one of its six divisors is strictly
\* positive, and the call returns without a division error.
C4_DivisorsArePositive ==
    Returned =>
        \A c \in {CountsOfArg} :
        \A divisor \in {denominators(c)} :
            /\ c.num_sentences >= 1
            /\ c.num_words >= 1
            /\ c.num_cleaned_words >= 1
            /\ \A f \in DOMAIN divisor : divisor[f].n > 0 /\ divisor[f].d > 0
            /\ ~ret.raised
            /\ \A f \in MetricFields : ret.value[f].d > 0

\* the empty text: no sentence, no word, and every ratio is finite
C4_Witness ==
    /\ Returned
    /\ arg = <<>>
    /\ ~ret.raised
    /\ ret.value.AVG_SENTENCE_LENGTH = num(1)
    /\ ret.value.POLARITY_SCORE = num(0)
    /\ ret.value.SYLLABLE_PER_WORD = num(0)

\* the maximal runs of vowels of w, by the position each starts at
VowelRunStarts(w) ==
    {i \in 1..Len(w) : w[i] \in vowels /\ (i = 1 \/ w[i - 1] \notin vowels)}

EndsInEsOrEd(w) ==
    /\ Len(w) >= 2
    /\ w[Len(w) - 1] = "e"
    /\ w[Len(w)] \in {"s", "d"}

\* C5: count_syllables(word) is max(1, r - s), r the number of maximal vowel
\* runs of the lower-cased word and s = 1 when it ends in "es" or "ed", else
\* 0; so it is at least 1, it is 1 for "cakes" and 2 for "running".
C5_SyllablesAreRunsMinusSuffix ==
    Returned =>
        LET w == lower(arg)
            r == Cardinality(VowelRunStarts(w))
            s == IF EndsInEsOrEd(w) THEN 1 ELSE 0
        IN  /\ ret = (IF r - s >= 1 THEN r - s ELSE 1)
            /\ ret >= 1
            /\ (arg = <<"c","a","k","e","s">> => ret = 1)
            /\ (arg = <<"r","u","n","n","i","n","g">> => ret = 2)

C5_Witness ==
    /\ Returned
    /\ arg = <<"c","a","k","e","s">>
    /\ ret = 1

\* the whole words of text: its maximal runs of word characters, as <<i, j>>
WholeWords(text) ==
    {ij \in (1..Len(text)) \X (1..Len(text)) :
        /\ ij[1] <= ij[2]
        /\ \A k \in ij[1]..ij[2] : is_word_char(text[k])
        /\ (ij[1] = 1 \/ ~is_word_char(text[ij[1] - 1]))
        /\ (ij[2] = Len(text) \/ ~is_word_char(text[ij[2] + 1]))}

WordAt(text, ij) == SubSeq(text, ij[1], ij[2])

PronounWords == {<<"i">>, <<"w","e">>, <<"m","y">>, <<"o","u","r","s">>, <<"u","s">>}

\* C6: count_personal_pronouns(text) is max(0, A - B), A the number of whole
\* words that are I, we, my, ours or us in any case and B the number of whole
\* words that are exactly "US"; it is the number of pronoun words other than
\* "US", and it is 2 for "I love us. The US is great."
C6_PronounsExceptCountryUS ==
    Returned =>
        LET A == Cardinality({ij \in WholeWords(arg) :
                                lower(WordAt(arg, ij)) \in PronounWords})
            B == Cardinality({ij \in WholeWords(arg) :
                                WordAt(arg, ij) = <<"U","S">>})
        IN  /\ ret = (IF A - B >= 0 THEN A - B ELSE 0)
            /\ ret = Cardinality({ij \in WholeWords(arg) :
                                    /\ lower(WordAt(arg, ij)) \in PronounWords
                                    /\ WordAt(arg, ij) # <<"U","S">>})
            /\ (arg \in {<<"u","s">>, <<"U","s">>, <<"i">>} => ret = 1)
            /\ (arg = <<"U","S">> => ret = 0)
            /\ (arg = PronounText => ret = 2)

C6_Witness ==
    /\ Returned
    /\ arg = PronounText
    /\ ret = 2

\* C7: the polarity score is (positive - negative) / (positive + negative +
\* 1e-6); it is 0 when the two scores are equal, has the sign of their
\* difference, lies within [-1, 1], and is 0 with both scores 1 for the text
\* "This is good. This is bad." under the lexicon good / bad / no stopwords.
C7_PolarityIsSignedRatio ==
    Returned =>
        LET pos == ret.value.POSITIVE_SCORE.n
            neg == ret.value.NEGATIVE_SCORE.n
            p   == ret.value.POLARITY_SCORE
        IN  /\ p = Q((pos - neg) * 1000000, (pos + neg) * 1000000 + 1)
            /\ (pos = neg => p = num(0))
            /\ (pos > neg <=> p.n > 0)
            /\ (pos < neg <=> p.n < 0)
            /\ p.d > 0 /\ -p.d <= p.n /\ p.n <= p.d
            /\ (/\ arg = GoodBadText
                /\ lexicon = <<{}, {w_good}, {w_bad}>>
                => pos = 1 /\ neg = 1 /\ p = num(0))

C7_Witness ==
    /\ Returned
    /\ arg = GoodBadText
    /\ lexicon = <<{}, {w_good}, {w_bad}>>
    /\ ret.value.POSITIVE_SCORE = num(1)
    /\ ret.value.NEGATIVE_SCORE = num(1)
    /\ ret.value.POLARITY_SCORE = num(0)

\* C8: for every text and every lexicon the loader produces, the subjectivity
\* score lies in the range [0, 1].
C8_SubjectivityWithinUnitRange ==
    Returned =>
        /\ ret.value.SUBJECTIVITY_SCORE.n >= 0
        /\ ret.value.SUBJECTIVITY_SCORE.n <= ret.value.SUBJECTIVITY_SCORE.d

-----------------------------------------------------------------------------
(* Properties of the lexicon and of the engine within the batch *)

\* C9: two records of a batch made from the same file contents have the same
\* metrics, wherever they stand in the list and whatever came before them,
\* and an iteration of the loop leaves the three lexicon sets as they were.
C9_RecordDependsOnTextAndLexiconOnly ==
    /\ [](\A i, j \in 1..Len(results) :
            FileOf(i) = FileOf(j) => MetricsOf(results[i]) = MetricsOf(results[j]))
    /\ [](\A i \in 1..Len(results) :
            FileOf(i).kind = "text" =>
                MetricsOf(results[i]) =
                    analyze_text(FileOf(i).text, stopwords, positive_words,
                                 negative_words).value)
    /\ [][index' # index => lexicon' = lexicon]_vars

C9_Witness ==
    /\ Len(results) >= 2
    /\ input_df[1].URL_ID # input_df[2].URL_ID
    /\ FileOf(1) = FileOf(2)
    /\ FileOf(1).kind = "text"
    /\ results[1].POSITIVE_SCORE.n > 0
    /\ MetricsOf(results[1]) = MetricsOf(results[2])

Constructed == pc \notin {"init_stopwords", "init_sentiment"}

\* C10: once the analyzer is constructed, neither sentiment set shares a word
\* with the stopwords; the sentiment sets are still empty while the stopwords
\* are loaded and the stopwords do not change after that; no later step of
\* the batch changes any of the three sets.
C10_SentimentSetsHoldNoStopword ==
    /\ [](Constructed =>
            /\ positive_words \cap stopwords = {}
            /\ negative_words \cap stopwords = {})
    /\ [](~Constructed => positive_words = {} /\ negative_words = {})
    /\ [][pc # "init_stopwords" => stopwords' = stopwords]_vars
    /\ [][Constructed => lexicon' = lexicon]_vars

\* the word lists name a stopword, and share a word that is no stopword
C10_Witness ==
    /\ pc = "saved"
    /\ Len(results) > 0
    /\ w_the \in stopwords
    /\ w_good \in positive_words
    /\ w_envious \in positive_words \cap negative_words

-----------------------------------------------------------------------------
(* Single calls of the loaders *)

\* the stopword sets load_sentiment_words is called with
LoaderStopwords == {{}, {w_the}, {w_good, w_envious}}

LoaderCalls ==
    {[method |-> "load_stopwords", folder |-> d, stopwords |-> {}] : d \in StopDirs}
    \cup {[method |-> "load_sentiment_words", folder |-> d, stopwords |-> sw] :
             d \in DictDirs, sw \in LoaderStopwords}

\* analyzer.load_stopwords(folder_path)
CallLoadStopwords ==
    /\ pc = "call"
    /\ arg.method = "load_stopwords"
    /\ ret' = load_stopwords(arg.folder)
    /\ pc' = "returned"
    /\ UNCHANGED CallFrame

\* analyzer.load_sentiment_words(folder_path), self.stopwords being set
CallLoadSentimentWords ==
    /\ pc = "call"
    /\ arg.method = "load_sentiment_words"
    /\ ret' = load_sentiment_words(arg.folder, arg.stopwords)
    /\ pc' = "returned"
    /\ UNCHANGED CallFrame

NextLoader == CallLoadStopwords \/ CallLoadSentimentWords

SpecLoader == CallInit(LoaderCalls) /\ [][NextLoader]_vars

-----------------------------------------------------------------------------
(* Properties of the loaders *)

\* the words a list file gives: its lines trimmed and lower-cased, blank
\* lines left out
WordsOfLines(lines) ==
    {lower(strip(lines[i])) : i \in 1..Len(lines)} \ {<<>>}

\* the words of one sentiment file as load_sentiment_words must return them
SideOf(folder, file, sw) ==
    IF folder.exists /\ file.exists /\ file.readable
    THEN WordsOfLines(file.lines) \ sw
    ELSE {}

-----------------------------------------------------------------------------
(* Properties of the batch report *)

LoopOver == pc \in {"write", "saved", "save_failed"}

\* the input rows whose article file is in one of the given states
RowsOfKind(kinds) == {i \in 1..Len(input_df) : FileOf(i).kind \in kinds}

\* C12: when the loop is over, the success count is the number of rows whose
\* article text was available (the file is there and was read), it is at most
\* the number of rows, and the number of rows less the success count is the
\* number of rows whose file was missing.
C12_SuccessCountsAvailableTexts ==
    LoopOver =>
        /\ success_count = Cardinality(RowsOfKind({"text", "raises"}))
        /\ success_count <= Len(input_df)
        /\ Len(input_df) - success_count = Cardinality(RowsOfKind({"missing"}))

\* main() has returned: Input.xlsx was absent (line 275), or the output was
\* written, or writing it raised and the error was printed (lines 335-336)
MainReturned == pc \in {"no_input", "saved", "save_failed"}

\* the process `python test_analysis.py` as its caller sees it: no exception
\* leaves main(), so the interpreter exits with status 0
process ==
    [finished |-> MainReturned, returncode |-> IF MainReturned THEN 0 ELSE -1]

\* streamlit.py, lines 230-244: what the Run Text Analysis handler reports
analysis_reported ==
    IF ~process.finished THEN "running"
    ELSE IF process.returncode = 0 THEN "completed successfully"
    ELSE "failed"

\* C13: when writing the output table fails, the run is reported to its
\* caller as failed, not as completed successfully, and the results table
\* still holds one record per input row, in input order.
C13_WriteFailureIsReportedAsFailure ==
    pc = "save_failed" =>
        /\ process.returncode # 0
        /\ analysis_reported = "failed"
        /\ Len(results) = Len(input_df)
        /\ \A i \in 1..Len(results) : results[i].URL_ID = input_df[i].URL_ID

-----------------------------------------------------------------------------
(* Properties of the metric fields *)

\* the alphabetic tokens of the text analysed, in text order
AlphaTokens == SelectSeq(word_tokenize(arg), isalpha)

\* the positions of the alphabetic tokens that are no stopwords
KeptTokens(tokens) ==
    {i \in 1..Len(tokens) : lower(tokens[i]) \notin stopwords}

\* value is the ratio of total to count (count > 0)
IsRatio(value, total, count) ==
    /\ value.d > 0
    /\ value.n * count = total * value.d

\* C14: WORD COUNT is max(number of alphabetic tokens that are no stopwords,
\* 1), and the number of all alphabetic tokens (at least 1) is the divisor of
\* the average sentence length, the percentage of complex words, the
\* syllables per word and the average word length, while the subjectivity
\* score is divided by the cleaned count.
C14_WordCountIsCleanedCount ==
    Returned =>
        \A tokens \in {AlphaTokens} :
        \A c \in {CountsOfArg} :
        \A cleaned \in {Cardinality(KeptTokens(tokens))} :
        \A words \in {IF Len(tokens) >= 1 THEN Len(tokens) ELSE 1} :
            /\ ret.value.WORD_COUNT = num(IF cleaned >= 1 THEN cleaned ELSE 1)
            /\ (cleaned < Len(tokens) /\ cleaned >= 1 =>
                    ret.value.WORD_COUNT # num(Len(tokens)))
            /\ IsRatio(ret.value.AVG_SENTENCE_LENGTH, words, c.num_sentences)
            /\ IsRatio(ret.value.PERCENTAGE_OF_COMPLEX_WORDS,
                       c.complex_word_count, words)
            /\ IsRatio(ret.value.SYLLABLE_PER_WORD, c.total_syllables, words)
            /\ IsRatio(ret.value.AVG_WORD_LENGTH, c.total_characters, words)
            /\ ret.value.SUBJECTIVITY_SCORE =
                  Q((c.positive_score + c.negative_score) * 1000000,
                    (IF cleaned >= 1 THEN cleaned ELSE 1) * 1000000 + 1)

\* "the Good" with the stopword "the": two tokens, one of them kept
C14_Witness ==
    /\ Returned
    /\ arg = <<"t","h","e"," ","G","o","o","d">>
    /\ w_the \in stopwords
    /\ w_good \notin stopwords
    /\ ret.value.WORD_COUNT = num(1)
    /\ ret.value.AVG_SENTENCE_LENGTH = num(2)

\* the positions of the tokens count_syllables gives more than 2 syllables
ComplexTokens(tokens) ==
    {i \in 1..Len(tokens) : count_syllables(tokens[i]) > 2}

\* C15: the complex word count is the number of alphabetic tokens, stopwords
\* included and repeated tokens counted each time, of more than 2 syllables;
\* it lies between 0 and the number of tokens; the percentage of complex words
\* is that count over the number of words and lies in [0, 1]; the fog index
\* is 0.4 * (average sentence length + percentage of complex words); the two
\* sentence-length fields both hold the number of words over the number of
\* sentences.
C15_ComplexWordsAndFogIndex ==
    Returned =>
        \A tokens \in {AlphaTokens} :
        \A c \in {CountsOfArg} :
        \A complex \in {Cardinality(ComplexTokens(tokens))} :
        \A words \in {IF Len(tokens) >= 1 THEN Len(tokens) ELSE 1} :
        \A A \in {ret.value.AVG_SENTENCE_LENGTH} :
        \A P \in {ret.value.PERCENTAGE_OF_COMPLEX_WORDS} :
        \A F \in {ret.value.FOG_INDEX} :
            /\ ret.value.COMPLEX_WORD_COUNT = num(complex)
            /\ 0 <= complex /\ complex <= Len(tokens)
            /\ IsRatio(P, complex, words)
            /\ 0 <= P.n /\ P.n <= P.d
            /\ F.d > 0
            /\ 5 * F.n * (A.d * P.d) = 2 * (A.n * P.d + P.n * A.d) * F.d
            /\ IsRatio(A, words, c.num_sentences)
            /\ ret.value.AVG_NUMBER_OF_WORDS_PER_SENTENCE = A

\* "the beautiful", both of them stopwords: one complex word of two, and a
\* fog index of 0.4 * 2.5
C15_Witness ==
    /\ Returned
    /\ arg = <<"t","h","e"," ","b","e","a","u","t","i","f","u","l">>
    /\ w_the \in stopwords
    /\ <<"b","e","a","u","t","i","f","u","l">> \in stopwords
    /\ ret.value.WORD_COUNT = num(1)
    /\ ret.value.COMPLEX_WORD_COUNT = num(1)
    /\ ret.value.PERCENTAGE_OF_COMPLEX_WORDS = Q(1, 2)
    /\ ret.value.AVG_SENTENCE_LENGTH = num(2)
    /\ ret.value.FOG_INDEX = num(1)

\* C16: the record analyze_text computes is never the record of zeros: for
\* every text WORD COUNT >= 1, AVG SENTENCE LENGTH > 0 and FOG INDEX > 0; for
\* the empty text they are 1, 1 and 0.4 and every other field is 0; so the
\* record of an article file that is there differs from that of a missing one.
C16_ComputedRecordIsNeverZeroRecord ==
    Returned =>
        /\ ret.value # get_zero_metrics
        /\ ret.value.WORD_COUNT.n >= 1
        /\ ret.value.AVG_SENTENCE_LENGTH.n > 0
        /\ ret.value.FOG_INDEX.n > 0
        /\ (arg = <<>> =>
               /\ ret.value.WORD_COUNT = num(1)
               /\ ret.value.AVG_SENTENCE_LENGTH = num(1)
               /\ ret.value.AVG_NUMBER_OF_WORDS_PER_SENTENCE = num(1)
               /\ ret.value.FOG_INDEX = Q(4, 10)
               /\ \A f \in MetricFields \ {"WORD_COUNT", "AVG_SENTENCE_LENGTH",
                                           "AVG_NUMBER_OF_WORDS_PER_SENTENCE",
                                           "FOG_INDEX"} :
                     ret.value[f] = num(0))
        /\ analyze_file([kind |-> "text", text |-> arg], stopwords,
                        positive_words, negative_words).value
           # analyze_file([kind |-> "missing", text |-> <<>>], stopwords,
                          positive_words, negative_words).value

C16_Witness ==
    /\ Returned
    /\ arg = <<>>
    /\ w_the \in stopwords
    /\ ret.value.WORD_COUNT = num(1)
    /\ ret.value.FOG_INDEX = Q(2, 5)
    /\ ret.value.SYLLABLE_PER_WORD = num(0)
    /\ ret.value # get_zero_metrics

-----------------------------------------------------------------------------
(* Properties of the error handling of the batch *)

\* the rows consumed so far whose article file is there
RowsWithFile == {i \in 1..index : FileOf(i).kind # "missing"}

\* C17: analyze_file returns normally for every article file, with the zero
\* metrics when the file cannot be read or analysed, so the handler of main()
\* around it is never taken: the success count is the number of rows consumed
\* whose file is there, the rows of unreadable and unanalysable files
\* included, although the records of those rows are all zeros.
C17_ExistingFilesAlwaysCountAsSuccess ==
    InBatch =>
        /\ success_count = Cardinality(RowsWithFile)
        /\ \A i \in 1..Len(results) :
              Failing(FileOf(i)) =>
                  /\ i \in RowsWithFile
                  /\ MetricsOf(results[i]) = get_zero_metrics
                  /\ \A returned \in {analyze_file(FileOf(i), stopwords,
                                                    positive_words, negative_words)} :
                        ~returned.raised /\ returned.value = get_zero_metrics

\* an unreadable and an unanalysable article: two zero records, two successes
C17_Witness ==
    /\ pc = "write"
    /\ Len(results) = 2
    /\ FileOf(1).kind = "unreadable"
    /\ FileOf(2).kind = "raises"
    /\ MetricsOf(results[1]) = get_zero_metrics
    /\ MetricsOf(results[2]) = get_zero_metrics
    /\ success_count = 2

-----------------------------------------------------------------------------
(* Properties of the stopword filter *)

\* the positions of the alphabetic tokens whose lower-case form is in words
TokensIn(tokens, words) ==
    {i \in 1..Len(tokens) : lower(tokens[i]) \in words}

\* the metric fields the stopwords of the analyzer can change
StopwordFields == {"WORD_COUNT", "SUBJECTIVITY_SCORE"}

\* C18: the positive and the negative score, counted by analyze_text over the
\* tokens the stopword filter keeps, are the numbers of all lower-cased
\* alphabetic tokens (with multiplicity) in positive_words and negative_words;
\* no token the filter drops is in either set; and with the same sentiment
\* sets and no stopwords analyze_text returns the same record except for
\* WORD COUNT and SUBJECTIVITY SCORE, the latter keeping its numerator.
C18_StopwordFilterKeepsSentimentCounts ==
    Returned =>
        \A tokens \in {AlphaTokens} :
        \A positive \in {Cardinality(TokensIn(tokens, positive_words))} :
        \A negative \in {Cardinality(TokensIn(tokens, negative_words))} :
        \A cleaned \in {Cardinality(KeptTokens(tokens))} :
        \A unfiltered \in {analyze_text(arg, {}, positive_words, negative_words)} :
            /\ ~ret.raised
            /\ ret.value.POSITIVE_SCORE = num(positive)
            /\ ret.value.NEGATIVE_SCORE = num(negative)
            /\ \A i \in 1..Len(tokens) :
                  i \notin KeptTokens(tokens) =>
                      lower(tokens[i]) \notin positive_words \cup negative_words
            /\ ret.value.POLARITY_SCORE =
                  Q((positive - negative) * 1000000,
                    (positive + negative) * 1000000 + 1)
            /\ ret.value.SUBJECTIVITY_SCORE =
                  Q((positive + negative) * 1000000,
                    (IF cleaned >= 1 THEN cleaned ELSE 1) * 1000000 + 1)
            /\ ~unfiltered.raised
            /\ \A field \in MetricFields \ StopwordFields :
                  ret.value[field] = unfiltered.value[field]

\* "the Good" with the stopword "the" and the positive word "good": the
\* filter drops one of the two tokens and the positive score is 1
C18_Witness ==
    /\ Returned
    /\ arg = <<"t","h","e"," ","G","o","o","d">>
    /\ w_the \in stopwords
    /\ w_good \in positive_words
    /\ Cardinality(KeptTokens(AlphaTokens)) < Len(AlphaTokens)
    /\ ret.value.POSITIVE_SCORE = num(1)
    /\ ret.value.WORD_COUNT = num(1)
    /\ ret.value.SUBJECTIVITY_SCORE = Q(1000000, 1000001)

=============================================================================
